---- MODULE Spec2Model ----
(***************************************************************************)
(* A model of key_presser.py: the KeyPresser class, its key table, the     *)
(* pressed_keys set and the events it hands to SendInput.                  *)
(*                                                                         *)
(* A key name is a Python str, modelled as a sequence of one-character     *)
(* strings, so that str.upper() and str.lower() are computed character by  *)
(* character.                                                              *)
(***************************************************************************)
EXTENDS Integers, Sequences, FiniteSets, TLC

(***************************************************************************)
(* Bounds of the model.                                                    *)
(***************************************************************************)
\* the most names a caller lets pressed_keys hold at once
MaxHeld == 3
\* the longest sleep a caller asks for, in clock ticks
MaxSeconds == 2

(***************************************************************************)
(* str.upper() and str.lower() on the characters key names are made of.    *)
(***************************************************************************)
LowerLetters ==
    <<"a","b","c","d","e","f","g","h","i","j","k","l","m",
      "n","o","p","q","r","s","t","u","v","w","x","y","z">>

UpperLetters ==
    <<"A","B","C","D","E","F","G","H","I","J","K","L","M",
      "N","O","P","Q","R","S","T","U","V","W","X","Y","Z">>

IndexOf(letters, c) ==
    CHOOSE i \in DOMAIN letters : letters[i] = c

\* the upper-case letter of each lower-case one, and the other way round
upper_of ==
    [c \in {LowerLetters[i] : i \in DOMAIN LowerLetters} |->
        UpperLetters[IndexOf(LowerLetters, c)]] @@ <<>>

lower_of ==
    [c \in {UpperLetters[i] : i \in DOMAIN UpperLetters} |->
        LowerLetters[IndexOf(UpperLetters, c)]] @@ <<>>

char_upper(c) ==
    IF c \in DOMAIN upper_of THEN upper_of[c] ELSE c

char_lower(c) ==
    IF c \in DOMAIN lower_of THEN lower_of[c] ELSE c

str_upper(s) ==
    [i \in 1..Len(s) |-> char_upper(s[i])]

str_lower(s) ==
    [i \in 1..Len(s) |-> char_lower(s[i])]

(***************************************************************************)
(* KEY_CODES, in the order of the dict literal.                            *)
(***************************************************************************)
KEY_TABLE == <<
    <<<<"Q">>, 16>>,
    <<<<"E">>, 18>>,
    <<<<"W">>, 17>>,
    <<<<"R">>, 19>>,
    <<<<"T">>, 20>>,
    <<<<"Y">>, 21>>,
    <<<<"U">>, 22>>,
    <<<<"I">>, 23>>,
    <<<<"O">>, 24>>,
    <<<<"P">>, 25>>,
    <<<<"A">>, 30>>,
    <<<<"S">>, 31>>,
    <<<<"D">>, 32>>,
    <<<<"F">>, 33>>,
    <<<<"G">>, 34>>,
    <<<<"H">>, 35>>,
    <<<<"J">>, 36>>,
    <<<<"K">>, 37>>,
    <<<<"L">>, 38>>,
    <<<<"Z">>, 44>>,
    <<<<"X">>, 45>>,
    <<<<"C">>, 46>>,
    <<<<"V">>, 47>>,
    <<<<"B">>, 48>>,
    <<<<"N">>, 49>>,
    <<<<"M">>, 50>>,
    <<<<"L","E","F","T","_","A","R","R","O","W">>, 203>>,
    <<<<"R","I","G","H","T","_","A","R","R","O","W">>, 205>>,
    <<<<"U","P","_","A","R","R","O","W">>, 200>>,
    <<<<"D","O","W","N","_","A","R","R","O","W">>, 208>>,
    <<<<"E","S","C">>, 1>>,
    <<<<"O","N","E">>, 2>>,
    <<<<"T","W","O">>, 3>>,
    <<<<"T","H","R","E","E">>, 4>>,
    <<<<"F","O","U","R">>, 5>>,
    <<<<"F","I","V","E">>, 6>>,
    <<<<"S","I","X">>, 7>>,
    <<<<"S","E","V","E","N">>, 8>>,
    <<<<"E","I","G","H","T">>, 9>>,
    <<<<"N","I","N","E">>, 10>>,
    <<<<"Z","E","R","O">>, 11>>,
    <<<<"M","I","N","U","S">>, 12>>,
    <<<<"E","Q","U","A","L","S">>, 13>>,
    <<<<"B","A","C","K","S","P","A","C","E">>, 14>>,
    <<<<"A","P","O","S","T","R","O","P","H","E">>, 40>>,
    <<<<"S","E","M","I","C","O","L","O","N">>, 39>>,
    <<<<"T","A","B">>, 15>>,
    <<<<"C","A","P","S","L","O","C","K">>, 58>>,
    <<<<"E","N","T","E","R">>, 28>>,
    <<<<"L","E","F","T","_","C","O","N","T","R","O","L">>, 29>>,
    <<<<"L","E","F","T","_","A","L","T">>, 56>>,
    <<<<"L","E","F","T","_","S","H","I","F","T">>, 42>>,
    <<<<"R","I","G","H","T","_","S","H","I","F","T">>, 54>>,
    <<<<"T","I","L","D","E">>, 41>>,
    <<<<"P","R","I","N","T","S","C","R","E","E","N">>, 55>>,
    <<<<"N","U","M","_","L","O","C","K">>, 69>>,
    <<<<"S","P","A","C","E">>, 57>>,
    <<<<"D","E","L","E","T","E">>, 83>>,
    <<<<"C","O","M","M","A">>, 51>>,
    <<<<"P","E","R","I","O","D">>, 52>>,
    <<<<"B","A","C","K","S","L","A","S","H">>, 53>>,
    <<<<"F","O","R","W","A","R","D","S","L","A","S","H">>, 43>>,
    <<<<"L","E","F","T","_","B","R","A","C","K","E","T">>, 26>>,
    <<<<"R","I","G","H","T","_","B","R","A","C","K","E","T">>, 27>>,
    <<<<"F","1">>, 59>>,
    <<<<"F","2">>, 60>>,
    <<<<"F","3">>, 61>>,
    <<<<"F","4">>, 62>>,
    <<<<"F","5">>, 63>>,
    <<<<"F","6">>, 64>>,
    <<<<"F","7">>, 65>>,
    <<<<"F","8">>, 66>>,
    <<<<"F","9">>, 67>>,
    <<<<"F","1","0">>, 68>>,
    <<<<"F","1","1">>, 87>>,
    <<<<"F","1","2">>, 88>>,
    <<<<"N","U","M","P","A","D","_","0">>, 82>>,
    <<<<"N","U","M","P","A","D","_","1">>, 79>>,
    <<<<"N","U","M","P","A","D","_","2">>, 80>>,
    <<<<"N","U","M","P","A","D","_","3">>, 81>>,
    <<<<"N","U","M","P","A","D","_","4">>, 75>>,
    <<<<"N","U","M","P","A","D","_","5">>, 76>>,
    <<<<"N","U","M","P","A","D","_","6">>, 77>>,
    <<<<"N","U","M","P","A","D","_","7">>, 71>>,
    <<<<"N","U","M","P","A","D","_","8">>, 72>>,
    <<<<"N","U","M","P","A","D","_","9">>, 73>>,
    <<<<"N","U","M","P","A","D","_","P","L","U","S">>, 78>>,
    <<<<"N","U","M","P","A","D","_","M","I","N","U","S">>, 74>>,
    <<<<"N","U","M","P","A","D","_","P","E","R","I","O","D">>, 83>>,
    <<<<"N","U","M","P","A","D","_","E","N","T","E","R">>, 156>>,
    <<<<"N","U","M","P","A","D","_","B","A","C","K","S","L","A","S","H">>, 181>>,
    <<<<"L","E","F","T","_","M","O","U","S","E">>, 256>>,
    <<<<"R","I","G","H","T","_","M","O","U","S","E">>, 257>>,
    <<<<"M","I","D","D","L","E","_","M","O","U","S","E">>, 258>>,
    <<<<"M","O","U","S","E","3">>, 259>>,
    <<<<"M","O","U","S","E","4">>, 260>>,
    <<<<"M","O","U","S","E","5">>, 261>>,
    <<<<"M","O","U","S","E","6">>, 262>>,
    <<<<"M","O","U","S","E","7">>, 263>>,
    <<<<"M","O","U","S","E","_","W","H","E","E","L","_","U","P">>, 264>>,
    <<<<"M","O","U","S","E","_","W","H","E","E","L","_","D","O","W","N">>, 265>>
    >>

\* the dict the literal builds: a later entry replaces an earlier one of the same name
RECURSIVE dict(_)
dict(n) ==
    IF n = 0
    THEN <<>>
    ELSE (KEY_TABLE[n][1] :> KEY_TABLE[n][2]) @@ dict(n - 1)

KEY_CODES ==
    dict(Len(KEY_TABLE))

\* a key listing that stops one entry short
dict_keys_short(table) ==
    LET first == {i \in 1..(Len(table) - 1) :
                    \A j \in 1..(i - 1) : table[j][1] # table[i][1]}
        listed == [k \in 1..Cardinality(first) |->
                     table[CHOOSE i \in first :
                             Cardinality({j \in first : j <= i}) = k][1]] IN
    SubSeq(listed, 1, Cardinality(first))

\* dict.keys() of the literal: the names in the order they were first inserted
dict_keys(table) ==
    LET first == {i \in DOMAIN table :
                    \A j \in 1..(i - 1) : table[j][1] # table[i][1]}
        listed == [k \in 1..Cardinality(first) |->
                     table[CHOOSE i \in first :
                             Cardinality({j \in first : j <= i}) = k][1]] IN
    SubSeq(listed, 1, Cardinality(first))

\* ', '.join(self.KEY_CODES.keys()), as the list of the names joined
valid_keys ==
    dict_keys(KEY_TABLE)

KEY_EVENT_KEY_UP == 2
KEY_EVENT_SCANCODE == 8
INPUT_KEYBOARD == 1

\* the exceptions the code can raise, and None
NoError == "None"
InvalidKeyError == "ValueError: not a valid key name"
SleepError == "ValueError: sleep length must be non-negative"

(***************************************************************************)
(* State.                                                                  *)
(***************************************************************************)
VARIABLES
    instance,       \* KeyPresser._instance: <<>> for None, or <<n>> for the
                    \* n-th KeyPresser constructed
    constructed,    \* how many times KeyPresser.__init__ has run
    pressed_keys,   \* pressed_keys of the object _instance refers to
    sent,           \* the SendInput calls of the latest call of a method
    last,           \* the latest call: method, arguments, exception, value
    message,        \* what the unknown-key ValueError of the latest call says,
                    \* <<>> when it raised none
    before,         \* pressed_keys when the latest call began
    pressed_just_before,
                    \* the latest call is release_key(k) and the call before it
                    \* was a hold_key(k) that returned
    down_codes,     \* the scancodes whose latest event handed to SendInput
                    \* was a key-down
    pressed_as,     \* <<k1>> when the latest call is a hold_key or release_key
                    \* that returned and the call before it was a hold_key(k1)
                    \* that returned, k1 another spelling of the same name;
                    \* <<>> otherwise
    pc,             \* where the caller's thread is: "idle" or "sleeping"
    sleep_left,     \* ticks time.sleep still has to wait
    slept           \* ticks time.sleep has waited in the latest call

vars ==
    <<instance, constructed, pressed_keys, sent, last, message, before,
      pressed_just_before, pressed_as, down_codes, pc, sleep_left, slept>>

(***************************************************************************)
(* The methods, as functions of the object's state.  st is a record of     *)
(* keys (pressed_keys), sent (the SendInput calls so far) and err (the     *)
(* exception in flight, if any).                                           *)
(***************************************************************************)
\* a get_instance that forgets the test and constructs at every call
get_instance_always_constructs(cls) ==
    [instance |-> <<cls.constructed + 1>>,
     constructed |-> cls.constructed + 1,
     keys |-> {}]

\* cls is the class: _instance, the number of objects constructed, and the
\* pressed_keys of the object _instance refers to; __init__ starts it empty
get_instance(cls) ==
    IF cls.instance = <<>>
    THEN [instance |-> <<cls.constructed + 1>>,
          constructed |-> cls.constructed + 1,
          keys |-> {}]
    ELSE cls

RECURSIVE BitOr(_, _)
BitOr(a, b) ==
    IF a = 0 THEN b
    ELSE IF b = 0 THEN a
    ELSE (IF a % 2 = 1 \/ b % 2 = 1 THEN 1 ELSE 0) + 2 * BitOr(a \div 2, b \div 2)

\* a lookup that forgets key_name.upper()
get_hex_key_code_case_sensitive(key_name) ==
    IF key_name \notin DOMAIN KEY_CODES
    THEN [raised |-> TRUE, value |-> <<>>,
          message |-> <<[name |-> key_name, valid_keys |-> valid_keys]>>]
    ELSE [raised |-> FALSE, value |-> <<KEY_CODES[key_name]>>, message |-> <<>>]

\* message is what the ValueError says: the name, upper-cased by then, and
\* the valid names
get_hex_key_code(key_name) ==
    LET name == str_upper(key_name) IN
    IF name \notin DOMAIN KEY_CODES
    THEN [raised |-> TRUE, value |-> <<>>,
          message |-> <<[name |-> name, valid_keys |-> valid_keys]>>]
    ELSE [raised |-> FALSE, value |-> <<KEY_CODES[name]>>, message |-> <<>>]

\* an event that passes the code as a virtual key, KEYBDINPUT(hex_key_code, 0, ...)
keyboard_input_as_virtual_key(hex_key_code, flags) ==
    [type |-> INPUT_KEYBOARD, wVk |-> hex_key_code % 65536, wScan |-> 0,
     dwFlags |-> flags, time |-> 0]

\* INPUT(INPUT_KEYBOARD, KEYBDINPUT(0, hex_key_code, flags, 0, ...)); wScan is a WORD
keyboard_input(hex_key_code, flags) ==
    [type |-> INPUT_KEYBOARD, wVk |-> 0, wScan |-> hex_key_code % 65536,
     dwFlags |-> flags, time |-> 0]

\* self.send_input(1, pointer(keyboard_input), sizeof(keyboard_input)), which
\* answers queued, the number of events the system took; the code drops it
send_input(fn, key_name, input, queued) ==
    [fn |-> fn, key_name |-> key_name, nInputs |-> 1, input |-> input,
     queued |-> queued]

\* a hold_key that toggles: a second press of a held name lets it go
hold_key_toggles(st, key_name, queued) ==
    LET hex_key_code == get_hex_key_code(key_name) IN
    IF hex_key_code.raised
    THEN [st EXCEPT !.err = InvalidKeyError, !.msg = hex_key_code.message]
    ELSE [keys |-> IF key_name \in st.keys
                   THEN st.keys \ {key_name}
                   ELSE st.keys \cup {key_name},
          sent |-> Append(st.sent,
                     send_input("hold_key", key_name,
                        keyboard_input(hex_key_code.value[1], KEY_EVENT_SCANCODE),
                        queued)),
          err  |-> NoError,
          msg  |-> <<>>]

\* a hold_key that records the upper-cased name
hold_key_adds_upper(st, key_name, queued) ==
    LET hex_key_code == get_hex_key_code(key_name) IN
    IF hex_key_code.raised
    THEN [st EXCEPT !.err = InvalidKeyError, !.msg = hex_key_code.message]
    ELSE [keys |-> st.keys \cup {str_upper(key_name)},
          sent |-> Append(st.sent,
                     send_input("hold_key", key_name,
                        keyboard_input(hex_key_code.value[1], KEY_EVENT_SCANCODE),
                        queued)),
          err  |-> NoError,
          msg  |-> <<>>]

\* a hold_key that records the name before it looks it up
hold_key_adds_first(st, key_name, queued) ==
    LET hex_key_code == get_hex_key_code(key_name) IN
    IF hex_key_code.raised
    THEN [keys |-> st.keys \cup {key_name}, sent |-> st.sent,
          err  |-> InvalidKeyError, msg |-> hex_key_code.message]
    ELSE [keys |-> st.keys \cup {key_name},
          sent |-> Append(st.sent,
                     send_input("hold_key", key_name,
                        keyboard_input(hex_key_code.value[1], KEY_EVENT_SCANCODE),
                        queued)),
          err  |-> NoError,
          msg  |-> <<>>]

hold_key(st, key_name, queued) ==
    LET hex_key_code == get_hex_key_code(key_name) IN
    IF hex_key_code.raised
    THEN [st EXCEPT !.err = InvalidKeyError, !.msg = hex_key_code.message]
    ELSE [keys |-> st.keys \cup {key_name},
          sent |-> Append(st.sent,
                     send_input("hold_key", key_name,
                        keyboard_input(hex_key_code.value[1], KEY_EVENT_SCANCODE),
                        queued)),
          err  |-> NoError,
          msg  |-> <<>>]

\* a release_key event that lacks the key-up flag
key_up_without_flag(st, key_name, hex_key_code, queued) ==
    Append(st.sent,
       send_input("release_key", key_name,
          keyboard_input(hex_key_code.value[1], KEY_EVENT_SCANCODE),
          queued))

\* the key-up event release_key sends
key_up(st, key_name, hex_key_code, queued) ==
    Append(st.sent,
       send_input("release_key", key_name,
          keyboard_input(hex_key_code.value[1],
             BitOr(KEY_EVENT_SCANCODE, KEY_EVENT_KEY_UP)),
          queued))

\* a release_key that raises when SendInput queued nothing
release_key_checks_queued(st, key_name, queued) ==
    LET hex_key_code == get_hex_key_code(key_name) IN
    IF hex_key_code.raised
    THEN [st EXCEPT !.err = InvalidKeyError, !.msg = hex_key_code.message]
    ELSE IF queued = 0
    THEN [keys |-> st.keys,
          sent |-> key_up(st, key_name, hex_key_code, queued),
          err  |-> "InjectionFailure",
          msg  |-> <<>>]
    ELSE [keys |-> st.keys \ {key_name},
          sent |-> key_up(st, key_name, hex_key_code, queued),
          err  |-> NoError,
          msg  |-> <<>>]

\* a release_key that discards the upper-cased name
release_key_discards_upper(st, key_name, queued) ==
    LET hex_key_code == get_hex_key_code(key_name) IN
    IF hex_key_code.raised
    THEN [st EXCEPT !.err = InvalidKeyError, !.msg = hex_key_code.message]
    ELSE [keys |-> st.keys \ {str_upper(key_name)},
          sent |-> key_up(st, key_name, hex_key_code, queued),
          err  |-> NoError,
          msg  |-> <<>>]

\* a release_key that discards every spelling of the key
release_key_discards_spellings(st, key_name, queued) ==
    LET hex_key_code == get_hex_key_code(key_name) IN
    IF hex_key_code.raised
    THEN [st EXCEPT !.err = InvalidKeyError, !.msg = hex_key_code.message]
    ELSE [keys |-> {k \in st.keys : str_upper(k) # str_upper(key_name)},
          sent |-> key_up(st, key_name, hex_key_code, queued),
          err  |-> NoError,
          msg  |-> <<>>]

\* a release_key that uses set.remove, which raises KeyError on an absent name
release_key_removes(st, key_name, queued) ==
    LET hex_key_code == get_hex_key_code(key_name) IN
    IF hex_key_code.raised
    THEN [st EXCEPT !.err = InvalidKeyError, !.msg = hex_key_code.message]
    ELSE IF key_name \notin st.keys
    THEN [keys |-> st.keys,
          sent |-> key_up(st, key_name, hex_key_code, queued),
          err  |-> "KeyError",
          msg  |-> <<>>]
    ELSE [keys |-> st.keys \ {key_name},
          sent |-> key_up(st, key_name, hex_key_code, queued),
          err  |-> NoError,
          msg  |-> <<>>]

release_key(st, key_name, queued) ==
    LET hex_key_code == get_hex_key_code(key_name) IN
    IF hex_key_code.raised
    THEN [st EXCEPT !.err = InvalidKeyError, !.msg = hex_key_code.message]
    ELSE [keys |-> st.keys \ {key_name},
          sent |-> key_up(st, key_name, hex_key_code, queued),
          err  |-> NoError,
          msg  |-> <<>>]

\* the scancodes left down once SendInput has been handed the events, in order
RECURSIVE keys_down(_, _)
keys_down(down, events) ==
    IF events = <<>>
    THEN down
    ELSE LET input == Head(events).input IN
         keys_down(IF (input.dwFlags \div KEY_EVENT_KEY_UP) % 2 = 1
                   THEN down \ {input.wScan}
                   ELSE down \cup {input.wScan},
                   Tail(events))

\* time.sleep(seconds) raises ValueError on a negative length
time_sleep_raises(seconds) ==
    seconds < 0

\* a sleep that returns before the length has passed
time_sleep_returns_early(left) ==
    TRUE

\* time.sleep returns once the whole length has passed
time_sleep_returns(left) ==
    left = 0

\* for key_code in list(self.pressed_keys): self.release_key(key_code)
\* order is the list, answers what SendInput answers to each call
RECURSIVE release_each(_, _, _)
release_each(st, order, answers) ==
    IF order = <<>> \/ st.err # NoError
    THEN st
    ELSE release_each(release_key(st, Head(order), Head(answers)),
                      Tail(order), Tail(answers))

\* a loop over self.pressed_keys itself: the set changes size under the
\* iterator, which raises RuntimeError at the next element
release_all_keys_live_set(st, order, answers) ==
    IF order = <<>>
    THEN st
    ELSE [release_key(st, Head(order), Head(answers)) EXCEPT
            !.err = "RuntimeError: Set changed size during iteration"]

release_all_keys(st, order, answers) ==
    release_each(st, order, answers)

(***************************************************************************)
(* What callers pass in.                                                   *)
(***************************************************************************)
A == <<"A">>
DELETE == <<"D","E","L","E","T","E">>
NUMPAD_PERIOD == <<"N","U","M","P","A","D","_","P","E","R","I","O","D">>
LEFT_MOUSE == <<"L","E","F","T","_","M","O","U","S","E">>
nonexistent_key ==
    <<"n","o","n","e","x","i","s","t","e","n","t","_","k","e","y">>

KeyNames ==
    {A, str_lower(A), DELETE, NUMPAD_PERIOD, LEFT_MOUSE, nonexistent_key}

Seconds == (0 - 1)..MaxSeconds

Queued == {0, 1}

\* the orders list(a set) can come in
Orders(S) ==
    {o \in [1..Cardinality(S) -> S] :
        \A i, j \in 1..Cardinality(S) : i # j => o[i] # o[j]}

\* SendInput failing for at most one of n calls
Answers(n) ==
    {[i \in 1..n |-> IF i = f THEN 0 ELSE 1] : f \in 0..n}

(***************************************************************************)
(* The calls.                                                              *)
(***************************************************************************)
Begin ==
    [keys |-> pressed_keys, sent |-> <<>>, err |-> NoError, msg |-> <<>>]

Call(op, key_name, seconds, status, value) ==
    [op |-> op, key_name |-> key_name, seconds |-> seconds,
     status |-> status, value |-> value]

Returned(op, key_name, seconds, st, value) ==
    /\ pressed_keys' = st.keys
    /\ sent' = st.sent
    /\ last' = Call(op, key_name, seconds, st.err, value)
    /\ message' = st.msg
    /\ down_codes' = keys_down(down_codes, st.sent)
    /\ before' = pressed_keys
    /\ pressed_just_before' =
          /\ op = "release_key"
          /\ last.op = "hold_key"
          /\ last.status = NoError
          /\ last.key_name = key_name
    /\ pressed_as' =
          IF /\ op \in {"hold_key", "release_key"}
             /\ st.err = NoError
             /\ last.op = "hold_key"
             /\ last.status = NoError
             /\ last.key_name # key_name
             /\ str_upper(last.key_name) = str_upper(key_name)
          THEN <<last.key_name>>
          ELSE <<>>
    /\ pc' = "idle"
    /\ sleep_left' = 0
    /\ slept' = 0
    /\ UNCHANGED <<instance, constructed>>

\* the class as loaded: _instance = None, and no call made yet
Init ==
    /\ instance = <<>>
    /\ constructed = 0
    /\ pressed_keys = {}
    /\ sent = <<>>
    /\ last = Call("none", <<>>, 0, NoError, <<>>)
    /\ message = <<>>
    /\ before = {}
    /\ pressed_just_before = FALSE
    /\ pressed_as = <<>>
    /\ down_codes = {}
    /\ pc = "idle"
    /\ sleep_left = 0
    /\ slept = 0

\* callers reach the object through KeyPresser.get_instance()
CallGetInstance ==
    /\ pc = "idle"
    /\ LET cls == get_instance([instance |-> instance, constructed |-> constructed,
                                keys |-> pressed_keys]) IN
       /\ instance' = cls.instance
       /\ constructed' = cls.constructed
       /\ pressed_keys' = cls.keys
       /\ last' = Call("get_instance", <<>>, 0, NoError, cls.instance)
    /\ sent' = <<>>
    /\ message' = <<>>
    /\ before' = pressed_keys
    /\ pressed_just_before' = FALSE
    /\ pressed_as' = <<>>
    /\ UNCHANGED <<down_codes, pc, sleep_left, slept>>

CallGetHexKeyCode(key_name) ==
    /\ pc = "idle"
    /\ instance # <<>>
    /\ LET r == get_hex_key_code(key_name) IN
       Returned("get_hex_key_code", key_name, 0,
                [Begin EXCEPT !.err = IF r.raised THEN InvalidKeyError ELSE NoError,
                              !.msg = r.message],
                r.value)

CallHoldKey(key_name, queued) ==
    /\ pc = "idle"
    /\ instance # <<>>
    /\ Cardinality(pressed_keys \cup {key_name}) <= MaxHeld
    /\ Returned("hold_key", key_name, 0, hold_key(Begin, key_name, queued), <<>>)

CallReleaseKey(key_name, queued) ==
    /\ pc = "idle"
    /\ instance # <<>>
    /\ Returned("release_key", key_name, 0, release_key(Begin, key_name, queued), <<>>)

CallReleaseAllKeys(order, answers) ==
    /\ pc = "idle"
    /\ instance # <<>>
    /\ Returned("release_all_keys", <<>>, 0,
                release_all_keys(Begin, order, answers), <<>>)

\* hold_and_release_key up to the point where time.sleep blocks
HoldAndReleaseKeyBegin(key_name, seconds, queued) ==
    /\ pc = "idle"
    /\ instance # <<>>
    /\ Cardinality(pressed_keys \cup {key_name}) <= MaxHeld
    /\ LET st == hold_key(Begin, key_name, queued) IN
       IF st.err # NoError
       THEN Returned("hold_and_release_key", key_name, seconds, st, <<>>)
       ELSE IF time_sleep_raises(seconds)
       THEN Returned("hold_and_release_key", key_name, seconds,
                     [st EXCEPT !.err = SleepError], <<>>)
       ELSE /\ pressed_keys' = st.keys
            /\ sent' = st.sent
            /\ last' = Call("hold_and_release_key", key_name, seconds, "running", <<>>)
            /\ message' = <<>>
            /\ before' = pressed_keys
            /\ pressed_just_before' = FALSE
            /\ pressed_as' = <<>>
            /\ down_codes' = keys_down(down_codes, st.sent)
            /\ pc' = "sleeping"
            /\ sleep_left' = seconds
            /\ slept' = 0
            /\ UNCHANGED <<instance, constructed>>

\* one tick of the clock while time.sleep blocks the caller
SleepTick ==
    /\ pc = "sleeping"
    /\ ~time_sleep_returns(sleep_left)
    /\ sleep_left' = sleep_left - 1
    /\ slept' = slept + 1
    /\ UNCHANGED <<instance, constructed, pressed_keys, sent, last, message, before,
                   pressed_just_before, pressed_as, down_codes, pc>>

\* time.sleep returns, and hold_and_release_key goes on to release_key
HoldAndReleaseKeyEnd(queued) ==
    /\ pc = "sleeping"
    /\ time_sleep_returns(sleep_left)
    /\ LET st == release_key([keys |-> pressed_keys, sent |-> sent,
                              err |-> NoError, msg |-> <<>>],
                             last.key_name, queued) IN
       /\ pressed_keys' = st.keys
       /\ sent' = st.sent
       /\ last' = [last EXCEPT !.status = st.err]
       /\ message' = st.msg
       /\ down_codes' = keys_down(down_codes, SubSeq(st.sent, Len(sent) + 1, Len(st.sent)))
       /\ pc' = "idle"
       /\ sleep_left' = 0
       /\ UNCHANGED <<instance, constructed, before, pressed_just_before, pressed_as,
                    slept>>

Next ==
    \/ CallGetInstance
    \/ \E key_name \in KeyNames : CallGetHexKeyCode(key_name)
    \/ \E key_name \in KeyNames, queued \in Queued : CallHoldKey(key_name, queued)
    \/ \E key_name \in KeyNames, queued \in Queued : CallReleaseKey(key_name, queued)
    \/ \E order \in Orders(pressed_keys) :
         \E answers \in Answers(Len(order)) : CallReleaseAllKeys(order, answers)
    \/ \E key_name \in KeyNames, seconds \in Seconds, queued \in Queued :
         HoldAndReleaseKeyBegin(key_name, seconds, queued)
    \/ SleepTick
    \/ \E queued \in Queued : HoldAndReleaseKeyEnd(queued)

Spec == Init /\ [][Next]_vars

(***************************************************************************)
(* The calls when SendInput queues every event it is handed.               *)
(***************************************************************************)
InjectedNext ==
    \/ CallGetInstance
    \/ \E key_name \in KeyNames : CallGetHexKeyCode(key_name)
    \/ \E key_name \in KeyNames : CallHoldKey(key_name, 1)
    \/ \E key_name \in KeyNames : CallReleaseKey(key_name, 1)
    \/ \E order \in Orders(pressed_keys) :
         CallReleaseAllKeys(order, [i \in 1..Len(order) |-> 1])
    \/ \E key_name \in KeyNames, seconds \in Seconds :
         HoldAndReleaseKeyBegin(key_name, seconds, 1)
    \/ SleepTick
    \/ HoldAndReleaseKeyEnd(1)

InjectedSpec == Init /\ [][InjectedNext]_vars

(***************************************************************************)
(* Lookups alone, over every name of the table in three spellings.         *)
(***************************************************************************)
SPACE == <<"S","P","A","C","E">>
F12 == <<"F","1","2">>

\* str.capitalize()
str_capitalize(s) ==
    [i \in 1..Len(s) |-> IF i = 1 THEN char_upper(s[i]) ELSE char_lower(s[i])]

LookupNames ==
    UNION {{n, str_lower(n), str_capitalize(n)} : n \in DOMAIN KEY_CODES}
      \cup {nonexistent_key, <<>>}

LookupNext ==
    \/ CallGetInstance
    \/ \E key_name \in LookupNames : CallGetHexKeyCode(key_name)

LookupSpec == Init /\ [][LookupNext]_vars

(***************************************************************************)
(* What the claims speak of.                                               *)
(***************************************************************************)
\* the name, case-normalized, is in the key table
IsValidName(key_name) ==
    str_upper(key_name) \in DOMAIN KEY_CODES

\* the latest call has returned or raised
Finished ==
    pc = "idle"

IsKeyDown(call, key_name) ==
    /\ call.fn = "hold_key"
    /\ call.key_name = key_name
    /\ call.input.type = INPUT_KEYBOARD
    /\ call.input.wScan = KEY_CODES[str_upper(key_name)]
    /\ call.input.dwFlags = KEY_EVENT_SCANCODE

IsKeyUp(call, key_name) ==
    /\ call.fn = "release_key"
    /\ call.key_name = key_name
    /\ call.input.type = INPUT_KEYBOARD
    /\ call.input.wScan = KEY_CODES[str_upper(key_name)]
    /\ call.input.dwFlags = KEY_EVENT_SCANCODE + KEY_EVENT_KEY_UP

\* C1: a call of get_hex_key_code, hold_key, release_key or
\* hold_and_release_key with a name whose upper-cased form is not in KEY_CODES
\* raises the unknown-key error, sends no input event and leaves pressed_keys
\* as it was before the call.
C1_UnknownKeyRejected ==
    ( /\ last.op \in {"get_hex_key_code", "hold_key", "release_key",
                      "hold_and_release_key"}
      /\ ~IsValidName(last.key_name) )
    => /\ Finished
       /\ last.status = InvalidKeyError
       /\ sent = <<>>
       /\ pressed_keys = before

C1_Witness ==
    /\ last.op = "hold_and_release_key"
    /\ ~IsValidName(last.key_name)
    /\ last.status = InvalidKeyError
    /\ Cardinality(before) >= 2

\* C2: release_all_keys leaves pressed_keys empty and calls release_key, with
\* one key-up event, exactly once for each name that was in pressed_keys when
\* it was called, and for no other name.
C2_ReleaseAllReleasesEachOnce ==
    last.op = "release_all_keys"
    => /\ pressed_keys = {}
       /\ Len(sent) = Cardinality(before)
       /\ \A i \in 1..Len(sent) :
            /\ sent[i].key_name \in before
            /\ IsKeyUp(sent[i], sent[i].key_name)
            /\ sent[i].nInputs = 1
       /\ \A k \in before :
            Cardinality({i \in 1..Len(sent) : sent[i].key_name = k}) = 1

C2_Witness ==
    /\ last.op = "release_all_keys"
    /\ Cardinality(before) = MaxHeld
    /\ pressed_keys = {}

\* C3: release_all_keys never raises, and when SendInput answers 0 (nothing
\* queued) for one held name, a release is still attempted for every other
\* name that was held.
C3_ReleaseAllNeverFails ==
    last.op = "release_all_keys"
    => /\ Finished
       /\ last.status = NoError
       /\ \A i \in 1..Len(sent) :
            sent[i].queued = 0
            => \A k \in before \ {sent[i].key_name} :
                 \E j \in 1..Len(sent) : j # i /\ sent[j].key_name = k

C3_Witness ==
    /\ last.op = "release_all_keys"
    /\ last.status = NoError
    /\ Len(sent) >= 3
    /\ sent[1].queued = 0
    /\ sent[2].queued = 1

\* C4: hold_and_release_key of a valid name with a duration of zero or less
\* sends the key-down event and then at once the matching key-up event, and
\* returns normally with the name not in pressed_keys.
C4_NonPositiveDurationReleasesAtOnce ==
    ( /\ last.op = "hold_and_release_key"
      /\ IsValidName(last.key_name)
      /\ last.seconds <= 0
      /\ Finished )
    => /\ last.status = NoError
       /\ slept = 0
       /\ Len(sent) = 2
       /\ IsKeyDown(sent[1], last.key_name)
       /\ IsKeyUp(sent[2], last.key_name)
       /\ last.key_name \notin pressed_keys

\* C5: hold_and_release_key of a valid name with a positive duration presses
\* the name (key-down sent, name held), then waits the whole duration with the
\* name held and nothing released, then releases it (key-up sent); when it
\* returns the name is not in pressed_keys, which is empty if nothing else was
\* held.
C5_HoldSleepRelease ==
    ( /\ last.op = "hold_and_release_key"
      /\ IsValidName(last.key_name)
      /\ last.seconds > 0 )
    => /\ ~Finished
          => /\ last.key_name \in pressed_keys
             /\ Len(sent) = 1
             /\ IsKeyDown(sent[1], last.key_name)
             /\ slept + sleep_left = last.seconds
       /\ Finished
          => /\ last.status = NoError
             /\ slept = last.seconds
             /\ Len(sent) = 2
             /\ IsKeyDown(sent[1], last.key_name)
             /\ IsKeyUp(sent[2], last.key_name)
             /\ last.key_name \notin pressed_keys
             /\ (before \ {last.key_name} = {} => pressed_keys = {})

C5_Witness ==
    /\ last.op = "hold_and_release_key"
    /\ IsValidName(last.key_name)
    /\ last.seconds = MaxSeconds
    /\ Finished
    /\ slept = MaxSeconds
    /\ before = {}
    /\ pressed_keys = {}

\* C6: when hold_key(k) of a valid name has returned and release_key(k) is the
\* very next call, pressed_keys does not contain k afterwards, whatever it
\* held before.
C6_PressThenReleaseNotHeld ==
    (last.op = "release_key" /\ pressed_just_before)
    => /\ last.status = NoError
       /\ last.key_name \notin pressed_keys

C6_Witness ==
    /\ last.op = "release_key"
    /\ pressed_just_before
    /\ last.key_name \notin pressed_keys
    /\ Cardinality(pressed_keys) >= 2

\* C7: once hold_key(k) of a valid name has returned, pressed_keys contains k,
\* and k leaves pressed_keys only in a step that performs release_key(k)
\* (alone or as the end of hold_and_release_key(k)) or release_all_keys: calls
\* on other names and lookups never remove it.
C7_HeldUntilReleased ==
    /\ []( (last.op = "hold_key" /\ last.status = NoError)
           => last.key_name \in pressed_keys )
    /\ [][ \A k \in pressed_keys :
             k \notin pressed_keys'
             => \/ last'.op = "release_all_keys"
                \/ /\ last'.op \in {"release_key", "hold_and_release_key"}
                   /\ last'.key_name = k ]_vars

C7_Witness ==
    /\ last.op = "release_key"
    /\ last.status = NoError
    /\ \E k \in before \cap pressed_keys :
         /\ k # last.key_name
         /\ str_upper(k) = str_upper(last.key_name)

\* C8: release_key of a valid name that is not in pressed_keys does not raise
\* and leaves pressed_keys unchanged.
C8_ReleaseOfUnheldIsNoOp ==
    ( /\ last.op = "release_key"
      /\ IsValidName(last.key_name)
      /\ last.key_name \notin before )
    => /\ Finished
       /\ last.status = NoError
       /\ pressed_keys = before

C8_Witness ==
    /\ last.op = "release_key"
    /\ IsValidName(last.key_name)
    /\ last.key_name \notin before
    /\ last.status = NoError
    /\ Cardinality(before) >= 2

\* C9: get_hex_key_code is case-insensitive on valid names: the call with k,
\* with k.upper() and with k.lower() all return the same scancode, the table's
\* entry for the upper-cased name ("space" gives 0x39, "f12" gives 0x58).
C9_LookupCaseInsensitive ==
    (last.op = "get_hex_key_code" /\ IsValidName(last.key_name))
    => LET k == last.key_name IN
       /\ last.status = NoError
       /\ last.value = <<KEY_CODES[str_upper(k)]>>
       /\ get_hex_key_code(str_upper(k)).value = last.value
       /\ get_hex_key_code(str_lower(k)).value = last.value
       /\ (k = str_lower(SPACE) => last.value = <<57>>)
       /\ (k = str_lower(F12) => last.value = <<88>>)

C9_Witness ==
    /\ last.op = "get_hex_key_code"
    /\ last.key_name = str_lower(F12)
    /\ last.status = NoError
    /\ last.value = <<88>>

\* C10: no two distinct names of KEY_CODES have the same scancode, so two held
\* names of different keys never share a scancode, and a key-up sent for one
\* name never carries the scancode of a held name of another key.
C10_ScancodesOneToOne ==
    /\ \A a, b \in pressed_keys :
         str_upper(a) # str_upper(b)
         => KEY_CODES[str_upper(a)] # KEY_CODES[str_upper(b)]
    /\ \A a \in pressed_keys : \A i \in 1..Len(sent) :
         ( /\ sent[i].fn = "release_key"
           /\ str_upper(sent[i].key_name) # str_upper(a) )
         => sent[i].input.wScan # KEY_CODES[str_upper(a)]

\* C11: every event hold_key sends is one keyboard event with the looked-up
\* scancode and the scancode flag alone; every event release_key sends is one
\* keyboard event with the looked-up scancode and the scancode flag or'ed with
\* the key-up flag; no call sends any other event.
C11_EventsWellFormed ==
    \A i \in 1..Len(sent) :
      LET call == sent[i]
          code == get_hex_key_code(call.key_name) IN
      /\ call.nInputs = 1
      /\ call.input.type = INPUT_KEYBOARD
      /\ ~code.raised
      /\ call.input.wScan = code.value[1]
      /\ call.input.wVk = 0
      /\ \/ /\ call.fn = "hold_key"
            /\ call.input.dwFlags = KEY_EVENT_SCANCODE
            /\ last.op \in {"hold_key", "hold_and_release_key"}
         \/ /\ call.fn = "release_key"
            /\ call.input.dwFlags = 10
            /\ last.op \in {"release_key", "hold_and_release_key",
                            "release_all_keys"}

C11_Witness ==
    /\ last.op = "hold_and_release_key"
    /\ Len(sent) = 2
    /\ sent[1].input.dwFlags = 8
    /\ sent[2].input.dwFlags = 10
    /\ sent[2].input.wScan = 83

\* C12: over any sequence of get_instance calls a KeyPresser is constructed
\* at most once: the first call constructs it, every later call returns that
\* same object, and pressed_keys is not reset by a repeated get_instance.
C12_ConstructedOnce ==
    /\ [](constructed <= 1)
    /\ []((last.op = "get_instance") => (last.value = instance /\ instance # <<>>))
    /\ [][ (last'.op = "get_instance" /\ instance # <<>>)
           => /\ instance' = instance
              /\ constructed' = constructed
              /\ pressed_keys' = pressed_keys ]_vars

C12_Witness ==
    /\ last.op = "get_instance"
    /\ constructed = 1
    /\ before # {}
    /\ pressed_keys = before

\* C13: when get_hex_key_code raises for an unknown name, the error names the
\* invalid name (in the upper-cased form the lookup used) and lists the valid
\* names: every key of KEY_CODES exactly once, and nothing else.
C13_ErrorListsValidNames ==
    (last.op = "get_hex_key_code" /\ last.status = InvalidKeyError)
    => /\ Len(message) = 1
       /\ message[1].name = str_upper(last.key_name)
       /\ LET listed == message[1].valid_keys IN
          /\ \A n \in DOMAIN KEY_CODES :
               Cardinality({i \in DOMAIN listed : listed[i] = n}) = 1
          /\ \A i \in DOMAIN listed : listed[i] \in DOMAIN KEY_CODES
          /\ Len(listed) = Cardinality(DOMAIN KEY_CODES)

C13_Witness ==
    /\ last.op = "get_hex_key_code"
    /\ last.key_name = nonexistent_key
    /\ last.status = InvalidKeyError
    /\ Len(message) = 1
    /\ Len(message[1].valid_keys) = 101

\* C14: pressed_keys changes only by hold_key adding its name and release_key
\* removing its name: a hold_key(k) that returns leaves the set as it was plus
\* k, a release_key(k) that returns leaves it as it was minus k, so no other
\* name's membership changes; get_hex_key_code and get_instance neither change
\* the set nor send an event.
C14_OnlyPressAndReleaseMutate ==
    /\ (last.op = "hold_key" /\ last.status = NoError)
       => pressed_keys = before \cup {last.key_name}
    /\ (last.op = "release_key" /\ last.status = NoError)
       => pressed_keys = before \ {last.key_name}
    /\ last.op \in {"get_hex_key_code", "get_instance"}
       => (pressed_keys = before /\ sent = <<>>)

C14_Witness ==
    /\ last.op = "hold_key"
    /\ last.status = NoError
    /\ last.key_name = str_lower(A)
    /\ A \in before
    /\ pressed_keys = before \cup {str_lower(A)}
    /\ Cardinality(pressed_keys) = 3

\* C15: hold_key or release_key of a mouse-button name (a table entry of 0x100
\* or above) never sends that code as a keyboard scancode event: the name is
\* sent another way or rejected.
C15_MouseNamesNotSentAsKeyboard ==
    \A i \in 1..Len(sent) :
      KEY_CODES[str_upper(sent[i].key_name)] >= 256
      => ~( /\ sent[i].input.type = INPUT_KEYBOARD
            /\ sent[i].input.wScan = KEY_CODES[str_upper(sent[i].key_name)] )

\* C16: key names are case-insensitive in pressed_keys too: for two spellings
\* k1, k2 of one valid name, after hold_key(k1) then release_key(k2) the set
\* has no entry for that name, and after hold_key(k1) then hold_key(k2) it has
\* exactly one.
C16_HeldSetCaseInsensitive ==
    pressed_as # <<>>
    => LET entries == {k \in pressed_keys :
                         str_upper(k) = str_upper(last.key_name)} IN
       /\ last.op = "release_key" => entries = {}
       /\ last.op = "hold_key" => Cardinality(entries) = 1

\* C17: with every injection succeeding, in every state reachable by hold_key,
\* release_key, hold_and_release_key and release_all_keys calls, each scancode
\* whose latest injected event is a key-down has a name mapping to it in
\* pressed_keys; so when release_all_keys has returned, no scancode is down.
C17_DownCodesAreHeld ==
    /\ \A code \in down_codes :
         \E k \in pressed_keys : KEY_CODES[str_upper(k)] = code
    /\ last.op = "release_all_keys" => down_codes = {}

C17_Witness ==
    /\ last.op = "release_all_keys"
    /\ DELETE \in before
    /\ str_lower(A) \in before
    /\ Cardinality(before) = 3
    /\ down_codes = {}

\* C18: holding is binary, not counted: every hold_key(k) of a valid name
\* sends one key-down, a hold_key(k) of a name already held leaves
\* pressed_keys as it was (as one press left it), and one release_key(k)
\* removes k however often it was pressed.
C18_HoldingIsBinary ==
    /\ (last.op = "hold_key" /\ last.status = NoError)
       => /\ Len(sent) = 1
          /\ IsKeyDown(sent[1], last.key_name)
          /\ last.key_name \in pressed_keys
          /\ last.key_name \in before => pressed_keys = before
    /\ (last.op = "release_key" /\ last.status = NoError)
       => last.key_name \notin pressed_keys

C18_Witness ==
    /\ last.op = "hold_key"
    /\ last.status = NoError
    /\ last.key_name \in before
    /\ pressed_keys = before
    /\ Len(sent) = 1
    /\ Cardinality(before) >= 2

\* C19: every element of pressed_keys is a name get_hex_key_code accepts, so
\* a release_key of a held element never raises the unknown-key error.
C19_HeldNamesAreValid ==
    \A k \in pressed_keys :
      /\ ~get_hex_key_code(k).raised
      /\ release_key(Begin, k, 1).err # InvalidKeyError

C19_Witness ==
    /\ Cardinality(pressed_keys) = MaxHeld
    /\ str_lower(A) \in pressed_keys
    /\ LEFT_MOUSE \in pressed_keys

====
